---- MODULE Spec2Model ----
(***************************************************************************)
(* Model of ssh-keygen-deluxe (src/src-rust/main.rs): the vanity key       *)
(* search.  Workers generate candidates and test their encoded public text *)
(* for the target; a shared counter (Stats) and a shared flag (found)      *)
(* coordinate them; main runs the workers on a thread pool, stops the      *)
(* progress reporter and reports the outcome.                              *)
(*                                                                         *)
(* Bytes are the integers 0..255, texts are sequences of bytes.            *)
(* Option<T> is a sequence of length at most 1: None is <<>>, Some(x) is   *)
(* <<x>>.  Option<usize> of the byte searches is an offset or NoPos.       *)
(***************************************************************************)
EXTENDS Integers, Sequences, FiniteSets, TLC

(***************************************************************************)
(* Bounds of the model.                                                    *)
(***************************************************************************)
\* longest haystack / needle handed to the matcher
MaxHay == 3
MaxNeedle == 3

\* number of private keys the generator draws from
NumKeys == 3

\* largest num_threads (workers) of a run
MaxWorkers == 2

\* a worker is looked at after the first and the MaxFine-th candidate of a
\* batch and at every early exit check
MaxFine == 7

\* no batch is started once this many batches are published
MaxBatches == 2

\* generation failures of a run
MaxFailures == 1

\* the bytes the texts are made of: '1', 'A', 'a', 'b'
Alphabet == <<49, 65, 97, 98>>

None == <<>>
Some(x) == <<x>>
NoPos == 0 - 1

(***************************************************************************)
(* The matcher: to_lowercase, the byte searches of the memchr crate, and   *)
(* contains_bytes_ignore_case.                                             *)
(***************************************************************************)
\* fn to_lowercase(b: u8) -> u8
ToLowercase(b) == IF b >= 65 /\ b <= 90 THEN b + (97 - 65) ELSE b

\* the upper-case variant computed for a needle byte (lines 131-135, 148-152)
UpperVariant(b) == IF b >= 97 /\ b <= 122 THEN b - (97 - 65) ELSE b

\* the suffix &haystack[start..] (start is 0-based)
SliceFrom(h, start) == SubSeq(h, start + 1, Len(h))

\* memchr::memchr(b, h): offset of the first byte equal to b
Memchr(b, h) ==
    LET hits == {i \in 1..Len(h) : h[i] = b}
    IN  IF hits = {} THEN NoPos
        ELSE (CHOOSE i \in hits : \A j \in hits : i <= j) - 1

\* memchr::memchr2(b1, b2, h): offset of the first byte equal to b1 or b2
Memchr2(b1, b2, h) ==
    LET hits == {i \in 1..Len(h) : h[i] = b1 \/ h[i] = b2}
    IN  IF hits = {} THEN NoPos
        ELSE (CHOOSE i \in hits : \A j \in hits : i <= j) - 1

\* a mutant of memmem::find: an empty needle is not found
MemmemFindNonEmpty(h, n) ==
    LET hits == {i \in 0..(Len(h) - Len(n)) :
                    Len(n) > 0 /\ SubSeq(h, i + 1, i + Len(n)) = n}
    IN  IF hits = {} THEN NoPos
        ELSE CHOOSE i \in hits : \A j \in hits : i <= j

\* memmem::find(h, n): offset of the first occurrence of n in h (0 for an
\* empty needle)
MemmemFind(h, n) ==
    LET hits == {i \in 0..(Len(h) - Len(n)) : SubSeq(h, i + 1, i + Len(n)) = n}
    IN  IF hits = {} THEN NoPos
        ELSE CHOOSE i \in hits : \A j \in hits : i <= j

\* usize::saturating_sub
SaturatingSub(a, b) == IF a >= b THEN a - b ELSE 0

\* the verification loop of lines 173-181: bytes 1.. of the needle against
\* the lower-cased haystack bytes at actual_pos
RestMatches(h, n, actual_pos) ==
    \A j \in 1..(Len(n) - 1) : ToLowercase(h[actual_pos + j + 1]) = n[j + 1]

\* the while loop of lines 154-191, entered with the given start
RECURSIVE ScanFrom(_, _, _)
ScanFrom(h, n, start) ==
    IF ~(start <= SaturatingSub(Len(h), Len(n))) THEN FALSE
    ELSE LET first_needle_byte == n[1]
             first_upper == UpperVariant(first_needle_byte)
             pos == IF first_needle_byte # first_upper
                    THEN Memchr2(first_needle_byte, first_upper, SliceFrom(h, start))
                    ELSE Memchr(first_needle_byte, SliceFrom(h, start))
         IN  IF pos = NoPos THEN FALSE
             ELSE LET actual_pos == start + pos
                  IN  IF actual_pos + Len(n) > Len(h) THEN FALSE
                      ELSE IF RestMatches(h, n, actual_pos) THEN TRUE
                      ELSE ScanFrom(h, n, actual_pos + 1)

\* a mutant of contains_bytes_ignore_case: the first byte is searched in the
\* needle's own case only
ContainsFirstByteExact(h, n) ==
    IF Len(n) = 0 THEN TRUE
    ELSE IF Len(n) > Len(h) THEN FALSE
    ELSE \E i \in 0..(Len(h) - Len(n)) :
            /\ h[i + 1] = n[1]
            /\ RestMatches(h, n, i)

\* fn contains_bytes_ignore_case(haystack: &[u8], needle: &[u8]) -> bool
ContainsBytesIgnoreCase(h, n) ==
    IF Len(n) = 0 THEN TRUE
    ELSE IF Len(n) > Len(h) THEN FALSE
    ELSE IF Len(n) = 1
         THEN LET target_byte == n[1]
                  upper_byte == UpperVariant(target_byte)
              IN  IF target_byte # upper_byte
                  THEN Memchr2(target_byte, upper_byte, h) # NoPos
                  ELSE Memchr(target_byte, h) # NoPos
    ELSE ScanFrom(h, n, 0)

\* the test of generate_and_check_key, lines 102-106
Matches(public_key_bytes, target, case_sensitive) ==
    IF case_sensitive
    THEN MemmemFind(public_key_bytes, target) # NoPos
    ELSE ContainsBytesIgnoreCase(public_key_bytes, target)

\* str::to_lowercase on the ASCII target (worker, line 218)
LowerText(t) == [i \in 1..Len(t) |-> ToLowercase(t[i])]

\* target_bytes as the worker prepares it, lines 215-219
TargetBytes(target, case_sensitive) ==
    IF case_sensitive THEN target ELSE LowerText(target)

(***************************************************************************)
(* Reference notions the claims are stated with (not code).                *)
(***************************************************************************)
\* n occurs in h as a contiguous substring
IsSubstring(h, n) ==
    \E i \in 0..(Len(h) - Len(n)) : SubSeq(h, i + 1, i + Len(n)) = n

\* the reference lower-casing of a text, byte by byte
RefLower(t) ==
    [i \in 1..Len(t) |-> IF t[i] \in 65..90 THEN t[i] + 32 ELSE t[i]]

HasUpper(t) == \E i \in 1..Len(t) : t[i] \in 65..90

\* all texts over the alphabet of length at most k
TextsUpTo(k) ==
    UNION {[1..len -> {Alphabet[i] : i \in 1..Len(Alphabet)}] : len \in 0..k}

(***************************************************************************)
(* Program constants and the key material.                                 *)
(***************************************************************************)
\* let batch_size = 1000u64
batch_size == 1000

\* the sub-interval of the early exit check: attempts % 100 == 0
CheckInterval == 100

\* the private keys the generator can draw
Keys == 0..(NumKeys - 1)

\* ssh_public.to_openssh(): the text of a key's public half, deterministic
\* and injective on Keys: the key written with two digits of Alphabet
Encode(k) ==
    <<Alphabet[((k \div Len(Alphabet)) % Len(Alphabet)) + 1],
      Alphabet[(k % Len(Alphabet)) + 1]>>

\* the targets of the runs: "", "A", "ab"
Targets == {<<>>, <<65>>, <<97, 98>>}

\* the numbers of threads of the pool (num_cpus::get()) of the runs
PoolSizes == {1, 2}

\* Config::default: num_threads: num_cpus::get() * 3
WorkersPerCpu == 3

\* a mutant of generate_and_check_key: every generated key is returned
GenerateAndCheckAlways(k, target, case_sensitive) ==
    Some([private_key |-> k, ssh_pub_key |-> Encode(k), attempts |-> 0])

\* fn generate_and_check_key, lines 81-117, for the key k the generator drew
GenerateAndCheckKey(k, target, case_sensitive) ==
    IF Matches(Encode(k), target, case_sensitive)
    THEN Some([private_key |-> k, ssh_pub_key |-> Encode(k), attempts |-> 0])
    ELSE None

\* fn generate_and_check_key when PrivateKey::new or to_openssh fails:
\* `.ok()?` returns None, lines 92-98
GenerateFailed == None

VARIABLES
    config,         \* Config: target, case_sensitive, num_threads
    cpus,           \* num_cpus::get(): the threads of the pool running the workers
    mainpc,         \* where main is
    found,          \* the AtomicBool found
    stats,          \* Stats.attempts
    wpc,            \* per worker: where the call worker(..) is
    attempts,       \* per worker: the local attempts
    ret,            \* per worker: the Option<KeyResult> it holds or returned
    full,           \* find_any: a result satisfying the predicate was seen
    result,         \* main's result
    rpc,            \* where display_progress is
    files,          \* the key files written by save_keys
    interrupted,    \* history: the Ctrl-C handler has run
    intClean,       \* history: it first ran while no worker had found a match
    firstMatchAt,   \* history: position of the first matching candidate among
                    \* all generated candidates, 0 while there is none, NoPos
                    \* in the runs that do not record it
    failures,       \* history: number of failed generations
    added,          \* history: sum of the arguments of the returned Stats::add
    generated,      \* history: number of calls of generate_and_check_key
    batches,        \* history: number of batches whose for loop ran to its end
                    \* and that were published
    after,          \* history, per worker: the candidates it generated while
                    \* the flag was set; None in the runs that do not record
                    \* it
    mpc,            \* matcher harness: "off", "call" or "ret"
    mhay,           \* matcher harness: the haystack
    mneedle,        \* matcher harness: the needle
    mcase,          \* matcher harness: case_sensitive
    mres            \* matcher harness: the value returned

mvars == <<mpc, mhay, mneedle, mcase, mres>>

hist == <<interrupted, intClean, firstMatchAt, failures, added, generated,
          batches, after>>

pvars == <<config, cpus, mainpc, found, stats, wpc, attempts, ret, full,
           result, rpc, files, hist>>

vars == <<pvars, mvars>>

\* the work items 0..config.num_threads of main, line 392
Workers == 1..config.num_threads

\* the calls of worker(..) a pool thread is executing
Running == {w \in Workers : wpc[w] \in {"top", "loop", "publish", "store", "returned"}}

\* the number of candidates generated so far by all workers
Calls ==
    LET RECURSIVE Sum(_)
        Sum(n) == IF n = 0 THEN 0 ELSE attempts[n] + Sum(n - 1)
    IN  stats + Sum(config.num_threads)

\* some worker holds or has returned a match
SomeMatch == \E w \in Workers : ret[w] # None

NoFiles == [private |-> None, public |-> None]

(***************************************************************************)
(* Initial states.  Config is the input of the search: main fills it from  *)
(* Config::default (num_threads = 3 * num_cpus, case_sensitive = true) and *)
(* the command line (target); worker reads target, case_sensitive and      *)
(* num_threads from it, whatever they are.                                 *)
(***************************************************************************)
MatcherOff ==
    /\ mpc = "off"
    /\ mhay = <<>>
    /\ mneedle = <<>>
    /\ mcase = TRUE
    /\ mres = FALSE

PoolStart(pc, first) ==
    /\ mainpc = pc
    /\ firstMatchAt = first
    /\ found = FALSE
    /\ stats = 0
    /\ wpc = [w \in Workers |-> "pending"]
    /\ attempts = [w \in Workers |-> 0]
    /\ ret = [w \in Workers |-> None]
    /\ full = FALSE
    /\ result = None
    /\ rpc = "idle"
    /\ files = NoFiles
    /\ interrupted = FALSE
    /\ intClean = FALSE
    /\ failures = 0
    /\ added = 0
    /\ generated = 0
    /\ batches = 0

RunInit(cases, first) ==
    /\ config \in [target : Targets, case_sensitive : cases,
                   num_threads : 1..MaxWorkers]
    /\ cpus \in PoolSizes
    /\ PoolStart("start", first)
    /\ MatcherOff

Init == RunInit(BOOLEAN, NoPos) /\ after = None

(***************************************************************************)
(* main, up to the parallel search.                                        *)
(***************************************************************************)
\* a mutant of lines 356-359: the target is not checked
ValidateConfigSkips ==
    /\ mainpc = "start"
    /\ mainpc' = "launch"
    /\ UNCHANGED <<config, cpus, found, stats, wpc, attempts, ret, full, result,
                   rpc, files, hist, mvars>>

\* lines 351-359: the target is checked before anything is started
ValidateConfig ==
    /\ mainpc = "start"
    /\ mainpc' = IF Len(config.target) = 0 THEN "config_error" ELSE "launch"
    /\ UNCHANGED <<config, cpus, found, stats, wpc, attempts, ret, full, result,
                   rpc, files, hist, mvars>>

\* lines 361-387: the shared state is created, the Ctrl-C handler installed
\* and the progress thread spawned; main then enters the parallel search
Launch ==
    /\ mainpc = "launch"
    /\ stats' = 0
    /\ found' = FALSE
    /\ rpc' = "check"
    /\ mainpc' = "search"
    /\ UNCHANGED <<config, cpus, wpc, attempts, ret, full, result, files, hist,
                   mvars>>

\* lines 378-380: the Ctrl-C handler, run on a signal while the process lives
Interrupt ==
    /\ mainpc \in {"search", "signal", "join", "report"}
    /\ found' = TRUE
    /\ interrupted' = TRUE
    /\ intClean' = IF interrupted THEN intClean ELSE (~found /\ ~SomeMatch)
    /\ UNCHANGED <<config, cpus, mainpc, stats, wpc, attempts, ret, full, result,
                   rpc, files, firstMatchAt, failures, added, generated, batches,
                   after, mvars>>

(***************************************************************************)
(* The parallel search, lines 392-398: the pool has cpus threads, each     *)
(* takes a work item when it is free; find_any maps no further item once a *)
(* result satisfied its predicate.  The calls of worker differ in nothing  *)
(* but the item they are made for: they are numbered in the order in which *)
(* the pool takes their items.                                             *)
(***************************************************************************)
StartWorker(w) ==
    /\ mainpc = "search"
    /\ wpc[w] = "pending"
    /\ \A v \in 1..(w - 1) : wpc[v] # "pending"
    /\ Cardinality(Running) < cpus
    /\ wpc' = [wpc EXCEPT ![w] = IF full THEN "skipped" ELSE "top"]
    /\ UNCHANGED <<config, cpus, mainpc, found, stats, attempts, ret, full,
                   result, rpc, files, hist, mvars>>

(***************************************************************************)
(* worker, lines 206-248.  A step of a worker runs up to its next access   *)
(* of found or stats: the candidates generated in between touch only the   *)
(* worker's own attempts.                                                  *)
(***************************************************************************)
\* line 221: while !found.load(..); line 247: None
LoopTop(w) ==
    /\ wpc[w] = "top"
    /\ found \/ stats < MaxBatches * batch_size
    /\ wpc' = [wpc EXCEPT ![w] = IF found THEN "done" ELSE "loop"]
    /\ UNCHANGED <<config, cpus, mainpc, found, stats, attempts, ret, full,
                   result, rpc, files, hist, mvars>>

\* a mutant of line 238: the flag is tested at the end of a batch only
ToCheckBatchEnd(w) == batch_size - attempts[w]

\* candidates left up to the next early exit check of worker w
ToCheck(w) == CheckInterval - (attempts[w] % CheckInterval)

\* the candidates of a batch after which a worker is looked at: the first,
\* the MaxFine-th, and the one before each early exit check
Marks == {1, MaxFine} \cup {c * CheckInterval : c \in 1..(batch_size \div CheckInterval)}

\* the numbers of loop iterations one step of w may take: up to a mark that
\* is not beyond the next early exit check
Strides(w) ==
    {m - attempts[w] : m \in {x \in Marks : x > attempts[w]
                                          /\ x <= attempts[w] + ToCheck(w)}}

\* the keys whose candidate does not match
Unmatched == {k \in Keys :
    GenerateAndCheckKey(k, TargetBytes(config.target, config.case_sensitive),
                        config.case_sensitive) = None}

\* a mutant of line 229: the global total is left out
TotalAttemptsLocal(total, local) == local

\* a mutant of line 229: attempts is counted after the check
TotalAttemptsBefore(total, local) == total + local - 1

\* a mutant of line 229: the batch size is added, not the local count
TotalAttemptsBatch(total, local) == total + batch_size

\* line 229: let total_attempts = stats.get_attempts() + attempts
TotalAttempts(total, local) == total + local

\* a mutant of lines 238-240: the worker publishes its local attempts before
\* it returns at an early exit check
IterateFlushes(w, n, gen, failed) ==
    LET a == attempts[w] + n
        exits == gen = None /\ a % CheckInterval = 0 /\ found
    IN  /\ wpc[w] = "loop"
        /\ n \in Strides(w)
        /\ n > 1 => Unmatched # {}
        /\ attempts' = [attempts EXCEPT ![w] = IF exits THEN 0 ELSE a]
        /\ stats' = IF exits THEN stats + a ELSE stats
        /\ added' = IF exits THEN added + a ELSE added
        /\ failures' = IF failed THEN failures + 1 ELSE failures
        /\ generated' = generated + n
        /\ after' = IF after = None \/ ~found THEN after
                    ELSE [after EXCEPT ![w] = @ + n]
        /\ IF gen # None
           THEN /\ ret' = [ret EXCEPT ![w] =
                              Some([gen[1] EXCEPT !.attempts =
                                              TotalAttempts(stats, a)])]
                /\ wpc' = [wpc EXCEPT ![w] = "store"]
                /\ firstMatchAt' =
                       IF firstMatchAt = 0 THEN Calls + n ELSE firstMatchAt
           ELSE /\ wpc' = [wpc EXCEPT ![w] =
                              IF exits THEN "done"
                              ELSE IF a = batch_size THEN "publish"
                              ELSE "loop"]
                /\ UNCHANGED <<ret, firstMatchAt>>
        /\ UNCHANGED <<config, cpus, mainpc, found, full, result, rpc,
                       files, interrupted, intClean, batches, mvars>>

\* lines 223-241: n iterations of the for loop, the first n - 1 of them with
\* candidates that do not match; gen is what generate_and_check_key returns
\* in the n-th
Iterate(w, n, gen, failed) ==
    LET a == attempts[w] + n
    IN  /\ wpc[w] = "loop"
        /\ n \in Strides(w)
        /\ n > 1 => Unmatched # {}
        /\ attempts' = [attempts EXCEPT ![w] = a]
        /\ failures' = IF failed THEN failures + 1 ELSE failures
        /\ generated' = generated + n
        /\ after' = IF after = None \/ ~found THEN after
                    ELSE [after EXCEPT ![w] = @ + n]
        /\ IF gen # None
           THEN \* lines 226-230: total_attempts = stats.get_attempts() + attempts
                /\ ret' = [ret EXCEPT ![w] =
                              Some([gen[1] EXCEPT !.attempts =
                                              TotalAttempts(stats, a)])]
                /\ wpc' = [wpc EXCEPT ![w] = "store"]
                /\ firstMatchAt' =
                       IF firstMatchAt = 0 THEN Calls + n ELSE firstMatchAt
           ELSE \* lines 238-240, and the end of the for loop
                /\ wpc' = [wpc EXCEPT ![w] =
                              IF a % CheckInterval = 0 /\ found THEN "done"
                              ELSE IF a = batch_size THEN "publish"
                              ELSE "loop"]
                /\ UNCHANGED <<ret, firstMatchAt>>
        /\ UNCHANGED <<config, cpus, mainpc, found, stats, full, result, rpc,
                       files, interrupted, intClean, added, batches, mvars>>

\* the candidates of a batch that the generator lets match: the first, the
\* MaxFine-th and the last
MatchMarks == {1, MaxFine, batch_size}

\* the keys the generator may draw for the c-th candidate of a batch
Drawn(c) == IF c \in MatchMarks THEN Keys ELSE Unmatched

\* an iteration whose generation succeeds with key k
Generate(w) ==
    \E n \in Strides(w) : \E k \in Drawn(attempts[w] + n) :
        Iterate(w, n,
                GenerateAndCheckKey(k, TargetBytes(config.target,
                                                   config.case_sensitive),
                                    config.case_sensitive),
                FALSE)

\* an iteration whose generation fails
GenerateFails(w) ==
    /\ failures < MaxFailures
    /\ \E n \in Strides(w) : Iterate(w, n, GenerateFailed, TRUE)

\* a mutant of Stats::add: the count is stored, not added
StatsStore(cur, count) == count

\* Stats::add, lines 27-29: attempts.fetch_add(count)
StatsAdd(cur, count) == cur + count

\* a mutant of worker: it returns None after a batch
PublishAndReturn(w) ==
    /\ wpc[w] = "publish"
    /\ stats' = StatsAdd(stats, batch_size)
    /\ added' = added + batch_size
    /\ batches' = batches + 1
    /\ attempts' = [attempts EXCEPT ![w] = 0]
    /\ wpc' = [wpc EXCEPT ![w] = "done"]
    /\ UNCHANGED <<config, cpus, mainpc, found, ret, full, result, rpc,
                   files, interrupted, intClean, firstMatchAt, failures,
                   generated, after, mvars>>

\* a mutant of line 245: the local count is not reset
PublishKeepsLocal(w) ==
    /\ wpc[w] = "publish"
    /\ stats' = StatsAdd(stats, batch_size)
    /\ added' = added + batch_size
    /\ batches' = batches + 1
    /\ wpc' = [wpc EXCEPT ![w] = "top"]
    /\ UNCHANGED <<config, cpus, mainpc, found, attempts, ret, full, result,
                   rpc, files, interrupted, intClean, firstMatchAt, failures,
                   generated, after, mvars>>

\* lines 244-245: stats.add(batch_size); attempts = 0
Publish(w) ==
    /\ wpc[w] = "publish"
    /\ stats' = StatsAdd(stats, batch_size)
    /\ added' = added + batch_size
    /\ batches' = batches + 1
    /\ attempts' = [attempts EXCEPT ![w] = 0]
    /\ wpc' = [wpc EXCEPT ![w] = "top"]
    /\ UNCHANGED <<config, cpus, mainpc, found, ret, full, result, rpc,
                   files, interrupted, intClean, firstMatchAt, failures,
                   generated, after, mvars>>

\* lines 233-234: found.store(true); return Some(key_result)
StoreFound(w) ==
    /\ wpc[w] = "store"
    /\ found' = TRUE
    /\ wpc' = [wpc EXCEPT ![w] = "returned"]
    /\ UNCHANGED <<config, cpus, mainpc, stats, attempts, ret, full, result,
                   rpc, files, hist, mvars>>

\* line 397: find_any's predicate on a returned Some: the search is full
Consume(w) ==
    /\ wpc[w] = "returned"
    /\ full' = TRUE
    /\ wpc' = [wpc EXCEPT ![w] = "done"]
    /\ UNCHANGED <<config, cpus, mainpc, found, stats, attempts, ret, result,
                   rpc, files, hist, mvars>>

WorkerStep(w) ==
    \/ StartWorker(w)
    \/ LoopTop(w)
    \/ Generate(w)
    \/ Publish(w)
    \/ StoreFound(w)
    \/ Consume(w)

(***************************************************************************)
(* main, after the parallel search.                                        *)
(***************************************************************************)
\* the results find_any may return: any of the matches, else None
Found == {ret[w] : w \in {v \in Workers : ret[v] # None}}

\* a mutant of lines 397-398: the predicate finds the None results
CollectNone ==
    /\ mainpc = "search"
    /\ \A w \in Workers : wpc[w] \in {"done", "skipped"}
    /\ result' = None
    /\ mainpc' = "signal"
    /\ UNCHANGED <<config, cpus, found, stats, wpc, attempts, ret, full, rpc,
                   files, hist, mvars>>

\* lines 392-398: every item is mapped or skipped; result is bound
Collect ==
    /\ mainpc = "search"
    /\ \A w \in Workers : wpc[w] \in {"done", "skipped"}
    /\ result' \in (IF Found = {} THEN {None} ELSE Found)
    /\ mainpc' = "signal"
    /\ UNCHANGED <<config, cpus, found, stats, wpc, attempts, ret, full, rpc,
                   files, hist, mvars>>

\* a mutant of line 401: the flag is cleared
SignalCompletionClears ==
    /\ mainpc = "signal"
    /\ found' = FALSE
    /\ mainpc' = "join"
    /\ UNCHANGED <<config, cpus, stats, wpc, attempts, ret, full, result, rpc,
                   files, hist, mvars>>

\* line 401: found.store(true)
SignalCompletion ==
    /\ mainpc = "signal"
    /\ found' = TRUE
    /\ mainpc' = "join"
    /\ UNCHANGED <<config, cpus, stats, wpc, attempts, ret, full, result, rpc,
                   files, hist, mvars>>

\* a mutant of line 402: main does not wait for the progress thread
JoinDetached ==
    /\ mainpc = "join"
    /\ mainpc' = "report"
    /\ UNCHANGED <<config, cpus, found, stats, wpc, attempts, ret, full, result,
                   rpc, files, hist, mvars>>

\* line 402: progress_handle.join()
Join ==
    /\ mainpc = "join"
    /\ rpc = "exited"
    /\ mainpc' = "report"
    /\ UNCHANGED <<config, cpus, found, stats, wpc, attempts, ret, full, result,
                   rpc, files, hist, mvars>>

\* save_keys, lines 296-329: what is on disk when it returns, by the step
\* that failed ("ok": none)
Saved(key_result, failing) ==
    CASE failing = "private" -> NoFiles
      [] failing = "public"  -> [private |-> Some(key_result.private_key),
                                 public |-> None]
      [] OTHER               -> [private |-> Some(key_result.private_key),
                                 public |-> Some(key_result.ssh_pub_key)]

\* a mutant of lines 423-429: a search without result ends as a success
ReportOutcomeSwallows ==
    /\ mainpc = "report"
    /\ IF result # None
       THEN \E failing \in {"ok", "private", "public", "permissions"} :
               /\ files' = Saved(result[1], failing)
               /\ mainpc' = IF failing = "ok" THEN "success" ELSE "save_failed"
       ELSE /\ mainpc' = "success"
            /\ UNCHANGED files
    /\ UNCHANGED <<config, cpus, found, stats, wpc, attempts, ret, full, result,
                   rpc, hist, mvars>>

\* the exit status of the process by the place main left at: Ok(()) at line
\* 431, std::process::exit(1) at lines 358, 414 and 428
ExitCode(pc) == IF pc = "success" THEN 0 ELSE 1

\* lines 404-430: the outcome
ReportOutcome ==
    /\ mainpc = "report"
    /\ IF result # None
       THEN \E failing \in {"ok", "private", "public", "permissions"} :
               /\ files' = Saved(result[1], failing)
               /\ mainpc' = IF failing = "ok" THEN "success" ELSE "save_failed"
       ELSE /\ mainpc' = "interrupted"
            /\ UNCHANGED files
    /\ UNCHANGED <<config, cpus, found, stats, wpc, attempts, ret, full, result,
                   rpc, hist, mvars>>

(***************************************************************************)
(* display_progress, lines 251-293.                                        *)
(***************************************************************************)
\* a mutant of line 255: the loop does not test the flag
PollIgnoresFlag ==
    /\ rpc = "check"
    /\ rpc' = "sleep"
    /\ UNCHANGED <<config, cpus, mainpc, found, stats, wpc, attempts, ret, full,
                   result, files, hist, mvars>>

\* line 255: while !found.load(..)
Poll ==
    /\ rpc = "check"
    /\ rpc' = IF found THEN "exited" ELSE "sleep"
    /\ UNCHANGED <<config, cpus, mainpc, found, stats, wpc, attempts, ret, full,
                   result, files, hist, mvars>>

\* lines 256-291: after the sleep the counter is read and rendered
Render ==
    /\ rpc = "sleep"
    /\ rpc' = "check"
    /\ UNCHANGED <<config, cpus, mainpc, found, stats, wpc, attempts, ret, full,
                   result, files, hist, mvars>>

Next ==
    \/ ValidateConfig
    \/ Launch
    \/ Interrupt
    \/ \E w \in Workers : WorkerStep(w)
    \/ Collect
    \/ SignalCompletion
    \/ Join
    \/ ReportOutcome
    \/ Poll
    \/ Render

Spec == Init /\ [][Next]_vars

(***************************************************************************)
(* The runs in which PrivateKey::new or to_openssh may fail.  In the code  *)
(* a failed generation is a None of generate_and_check_key, as a candidate *)
(* that does not match is; only the history variable failures tells them   *)
(* apart.                                                                  *)
(***************************************************************************)
FailNext ==
    \/ Next
    \/ \E w \in Workers : GenerateFails(w)

FailSpec == Init /\ [][FailNext]_vars

(***************************************************************************)
(* The runs of main's configuration of the matcher (case_sensitive = true, *)
(* line 354) in which the position of the first matching candidate in the  *)
(* sequence of all generated candidates is recorded.                       *)
(***************************************************************************)
SeqInit == RunInit({TRUE}, 0) /\ after = None

SeqSpec == SeqInit /\ [][Next]_vars

(***************************************************************************)
(* Scheduling: every pool thread, the progress thread and main keep        *)
(* running; nothing is assumed of the Ctrl-C signal.                       *)
(***************************************************************************)
Fairness ==
    /\ \A w \in 1..MaxWorkers : WF_vars(w \in Workers /\ WorkerStep(w))
    /\ WF_vars(ValidateConfig \/ Launch \/ Collect \/ SignalCompletion
                 \/ Join \/ ReportOutcome)
    /\ WF_vars(Poll \/ Render)

\* the runs of main's configuration of the matcher under this scheduling
MainInit == RunInit({TRUE}, NoPos) /\ after = None

FairSpec == MainInit /\ [][Next]_vars /\ Fairness

FairSeqSpec == SeqSpec /\ Fairness

(***************************************************************************)
(* The runs of main's configuration in which every worker's candidates     *)
(* generated while the flag is set are counted.                            *)
(***************************************************************************)
LatencyInit == RunInit({TRUE}, NoPos) /\ after = [w \in Workers |-> 0]

LatencySpec == LatencyInit /\ [][Next]_vars

(***************************************************************************)
(* The runs of the configuration main builds on a machine with one         *)
(* processor: Config::default gives num_threads = 3 * num_cpus::get(), the *)
(* global pool of rayon has num_cpus::get() threads, and main sets         *)
(* case_sensitive = true.                                                  *)
(***************************************************************************)
DefaultInit ==
    /\ cpus = 1
    /\ config \in [target : Targets, case_sensitive : {TRUE},
                   num_threads : {cpus * WorkersPerCpu}]
    /\ PoolStart("start", NoPos)
    /\ MatcherOff
    /\ after = None

DefaultSpec == DefaultInit /\ [][Next]_vars

(***************************************************************************)
(* The matcher applied to every haystack and needle of the bounds.         *)
(***************************************************************************)
MatcherInit ==
    /\ mpc = "call"
    /\ mhay \in TextsUpTo(MaxHay)
    /\ mneedle \in TextsUpTo(MaxNeedle)
    /\ mcase \in BOOLEAN
    /\ mres = FALSE
    /\ config = [target |-> <<>>, case_sensitive |-> TRUE, num_threads |-> 1]
    /\ cpus = 1
    /\ PoolStart("off", NoPos)
    /\ after = None

\* one evaluation of the test of generate_and_check_key
MatcherCall ==
    /\ mpc = "call"
    /\ mres' = Matches(mhay, mneedle, mcase)
    /\ mpc' = "ret"
    /\ UNCHANGED <<mhay, mneedle, mcase, pvars>>

MatcherNext == MatcherCall

MatcherSpec == MatcherInit /\ [][MatcherNext]_vars

(***************************************************************************)
(* The claims.                                                             *)
(***************************************************************************)
\* main holds the result of the parallel search
Collected ==
    mainpc \in {"signal", "join", "report", "success", "save_failed", "interrupted"}

\* the process has exited
Terminal == mainpc \in {"success", "save_failed", "interrupted", "config_error"}

\* the text contains the configured target under the configured case mode
ContainsTarget(text) ==
    IF config.case_sensitive
    THEN IsSubstring(text, config.target)
    ELSE IsSubstring(RefLower(text), RefLower(config.target))

\* a key result is one candidate: its text is the encoding of its key
OneCandidate(r) ==
    /\ r.ssh_pub_key = Encode(r.private_key)
    /\ ContainsTarget(r.ssh_pub_key)

\* C1: a match a worker holds or returned, and the Match main got, is a single
\* candidate: its public text contains the target under the configured case
\* mode and is the encoding of the private key it carries.
C1_MatchIsOneMatchingCandidate ==
    /\ \A w \in Workers : ret[w] # None => OneCandidate(ret[w][1])
    /\ (Collected /\ result # None) => OneCandidate(result[1])

\* C1 witness: two workers returned different matching keys in a
\* case-insensitive search and main got one of them
C1_Witness ==
    /\ Collected
    /\ result # None
    /\ ~config.case_sensitive
    /\ config.num_threads = 2
    /\ ret[1] # None
    /\ ret[2] # None
    /\ ret[1][1].private_key # ret[2][1].private_key

\* C2 as claimed: for every non-empty needle, of any letter case, the
\* case-insensitive matcher returns true iff the lower-cased haystack contains
\* the lower-cased needle.
C2_AnyNeedle ==
    (mpc = "ret" /\ ~mcase /\ Len(mneedle) > 0)
        => (mres <=> IsSubstring(RefLower(mhay), RefLower(mneedle)))

\* C2 amended: for every non-empty needle without an upper-case letter the
\* case-insensitive matcher returns true iff the lower-cased haystack contains
\* the needle.
C2_LowerCaseNeedle ==
    (mpc = "ret" /\ ~mcase /\ Len(mneedle) > 0 /\ ~HasUpper(mneedle))
        => (mres <=> IsSubstring(RefLower(mhay), RefLower(mneedle)))

\* C2 witness: a needle of two bytes or more found only by case folding, at
\* a position after the first occurrence of its first byte
C2_Witness ==
    /\ mpc = "ret"
    /\ ~mcase
    /\ Len(mneedle) > 1
    /\ ~HasUpper(mneedle)
    /\ mres
    /\ ~IsSubstring(mhay, mneedle)
    /\ ToLowercase(mhay[1]) = mneedle[1]
    /\ ~IsSubstring(RefLower(SubSeq(mhay, 1, Len(mneedle))), mneedle)

\* C3 as claimed: the Match the run returns reports an attempt count of at
\* least K, the position of the first matching candidate among the candidates
\* all workers generated.
C3_CountAtLeastK ==
    (Collected /\ result # None) => result[1].attempts >= firstMatchAt

\* the count part of C3 amended
C3_Count ==
    (Collected /\ result # None) =>
        /\ result[1].attempts >= 1
        /\ result[1].attempts <= Calls
        /\ config.num_threads = 1 => result[1].attempts = firstMatchAt

\* C3 amended: once the K-th generated candidate is the first that matches,
\* the run comes to return a Match; the attempt count of the Match it returns
\* is at least 1 and at most the number of candidates generated so far, and
\* is K when there is one worker.
C3_MatchReturnedCountWithinCalls ==
    /\ []C3_Count
    /\ (firstMatchAt > 0) ~> (Collected /\ result # None)

\* C3 witness: with two workers the returned Match reports fewer attempts
\* than the position of the first matching candidate
C3_Witness ==
    /\ Collected
    /\ result # None
    /\ config.num_threads = 2
    /\ result[1].attempts < firstMatchAt
    /\ result[1].attempts <= Calls

\* C4: with one worker and no interrupt the run returns a Match whose attempt
\* count is k, the number of candidates the worker generated up to and with
\* the first matching one.
C4_SingleWorkerCountIsK ==
    (Collected /\ config.num_threads = 1 /\ ~interrupted) =>
        /\ result # None
        /\ result[1].attempts = firstMatchAt
        /\ result[1].attempts = Calls

\* C4 witness: the first match is the 7th candidate of the second batch and
\* the count is 1007
C4_Witness ==
    /\ Collected
    /\ config.num_threads = 1
    /\ ~interrupted
    /\ result # None
    /\ result[1].attempts = batch_size + MaxFine
    /\ firstMatchAt = batch_size + MaxFine

\* every call of worker has returned or was never made
WorkersReturned == \A w \in Workers : wpc[w] \in {"done", "skipped"}

\* C5: once an interrupt has set the flag while no worker had matched, every
\* worker returns, the reporter exits and the program reaches its outcome.
C5_InterruptedRunEnds ==
    (interrupted /\ intClean) ~> (Terminal /\ WorkersReturned /\ rpc = "exited")

\* C5 witness: an interrupted run with more workers than pool threads ended
C5_Witness ==
    /\ interrupted
    /\ intClean
    /\ mainpc = "interrupted"
    /\ WorkersReturned
    /\ rpc = "exited"
    /\ config.num_threads > cpus
    /\ Calls > 0

\* C6 as claimed: when the interrupt sets the flag while no worker has found a
\* match, the run returns Cancelled.
C6_InterruptGivesCancelled ==
    (Collected /\ intClean) => result = None

\* C6 amended: when the interrupt sets the flag while no worker has found a
\* match, the run returns Cancelled and writes no key unless a worker still
\* finds a match afterwards; then the run returns a Match.
C6_CancelledUnlessLateMatch ==
    (Collected /\ intClean) =>
        /\ result = None <=> ~SomeMatch
        /\ result = None => files = NoFiles
        /\ (Terminal /\ result = None) => mainpc = "interrupted"

\* C6 witness: two workers generated candidates, the interrupt came before
\* any match and the run ended Cancelled
C6_Witness ==
    /\ mainpc = "interrupted"
    /\ intClean
    /\ result = None
    /\ config.num_threads = 2
    /\ \A w \in Workers : attempts[w] > 0

\* C7: the flag starts false and no step sets it back to false.
C7_FlagIsLatch ==
    /\ ~found
    /\ [][found => found']_vars

\* C7 witness: a worker, the interrupt handler and main have all stored the
\* flag
C7_Witness ==
    /\ found
    /\ interrupted
    /\ SomeMatch
    /\ mainpc = "report"

\* C8: the counter is the sum of the arguments of the returned add calls and
\* never decreases.
C8_CounterExactAndMonotonic ==
    /\ [](stats = added)
    /\ [][stats' >= stats]_vars

\* C8 witness: adds of two workers that ran their batches at the same time
C8_Witness ==
    /\ stats = (MaxBatches + 1) * batch_size
    /\ added = stats
    /\ config.num_threads > 1

\* C9 as claimed: a step in which a generation fails stops the worker: it
\* returns None and the failure is not counted in attempts.
C9_FailureStopsWorker ==
    [][failures' # failures =>
          \E w \in Workers :
              /\ wpc[w] = "loop"
              /\ wpc'[w] = "done"
              /\ ret'[w] = None
              /\ attempts'[w] = attempts[w]]_vars

\* a worker returned None
Empty(w) == wpc[w] = "done" /\ ret[w] = None

\* C10 as claimed: Cancelled only after an interrupt; without an interrupt no
\* worker returns empty-handed; a match of a worker is never replaced by
\* Cancelled.
C10_NoEmptyReturnWithoutInterrupt ==
    /\ (Collected /\ result = None) => interrupted
    /\ ~interrupted => \A w \in Workers : ~Empty(w)
    /\ (Collected /\ SomeMatch) => result \in Found

\* C10 amended: Cancelled only after an interrupt; without an interrupt a
\* worker returns empty-handed only after another worker found a match and
\* stored the flag; a match of a worker is never replaced by Cancelled.
C10_CancelledOnlyByInterrupt ==
    /\ (Collected /\ result = None) => interrupted
    /\ ~interrupted =>
          \A w \in Workers :
              Empty(w) => \E v \in Workers \ {w} :
                              ret[v] # None /\ wpc[v] \in {"returned", "done"}
    /\ (Collected /\ SomeMatch) => result \in Found

\* C10 witness: without an interrupt one worker returned a match, the other
\* returned None, and main got the match
C10_Witness ==
    /\ Collected
    /\ ~interrupted
    /\ result # None
    /\ \E w \in Workers : Empty(w) /\ attempts[w] > 0

\* C11: key files are written only when the result of the search is a Match,
\* by one step of the run and with the key of that Match; a run whose result
\* is Cancelled writes no file and ends with the interrupted outcome and a
\* non-zero exit status, which the success outcome does not have.
C11_KeysOnlyForMatch ==
    /\ [](files # NoFiles =>
             /\ result # None
             /\ mainpc \in {"success", "save_failed"}
             /\ files.private = Some(result[1].private_key)
             /\ files.public \in {None, Some(result[1].ssh_pub_key)})
    /\ []((Terminal /\ mainpc # "config_error" /\ result = None) =>
             /\ files = NoFiles
             /\ mainpc = "interrupted"
             /\ ExitCode(mainpc) # ExitCode("success"))
    /\ []((mainpc = "success" /\ result # None) =>
             files = Saved(result[1], "ok"))
    /\ [][files' # files =>
             /\ files = NoFiles
             /\ mainpc = "report"
             /\ mainpc' # "report"
             /\ result # None]_vars

\* C11 witness: a run that published batches of two workers was interrupted
\* and ended Cancelled with nothing written
C11_Witness ==
    /\ mainpc = "interrupted"
    /\ ExitCode(mainpc) = 1
    /\ result = None
    /\ files = NoFiles
    /\ interrupted
    /\ stats >= 2 * batch_size
    /\ config.num_threads = 2

\* the configurations the claim calls erroneous
ConfigError == Len(config.target) = 0 \/ config.num_threads = 0

\* nothing of the search exists: no worker was started, no candidate
\* generated, the reporter not spawned, counter and flag as they began
Untouched ==
    /\ \A w \in Workers : wpc[w] = "pending" /\ attempts[w] = 0 /\ ret[w] = None
    /\ rpc = "idle"
    /\ stats = 0
    /\ added = 0
    /\ ~found
    /\ ~interrupted
    /\ result = None
    /\ files = NoFiles

C13_EmptyNeedleMatches ==
    (mpc = "ret" /\ Len(mneedle) = 0) => mres

\* C13 witness: the case-sensitive search of the empty needle in the empty
\* haystack returned true
C13_Witness ==
    /\ mpc = "ret"
    /\ mcase
    /\ Len(mneedle) = 0
    /\ Len(mhay) = 0
    /\ mres

\* worker w is in its search loop
Searching(w) == wpc[w] \in {"top", "loop", "publish"}

\* C14: a worker generates at most 100 candidates while the flag is set,
\* wherever in its batch it was when the flag was set, and after the 100th it
\* is no longer searching.
C14_LatencyOneSubInterval ==
    \A w \in Workers :
        /\ after[w] <= CheckInterval
        /\ after[w] = CheckInterval => ~Searching(w)
        /\ (found /\ Searching(w)) =>
               after[w] + ToCheck(w) <= CheckInterval \/ after[w] = 0

\* C14 witness: the flag was set right after a worker's check at 900
\* candidates; the worker generated the last 100 of its batch and returned
\* None at the check that ends the batch
C14_Witness ==
    \E w \in Workers :
        /\ after[w] = CheckInterval
        /\ attempts[w] = batch_size
        /\ wpc[w] = "done"
        /\ ret[w] = None

\* the local attempts of all workers
Unpublished ==
    LET RECURSIVE Sum(_)
        Sum(n) == IF n = 0 THEN 0 ELSE attempts[n] + Sum(n - 1)
    IN  Sum(config.num_threads)

\* C15: the step in which a searching worker returns on the flag, at an
\* early exit check or at the top of its loop, leaves the counter as it is
\* and the worker returns None; the attempts it had not published stay out
\* of the counter for the rest of the run.
C15_StopPublishesNothing ==
    /\ [][\A w \in Workers :
            (Searching(w) /\ wpc'[w] = "done") =>
                /\ found
                /\ stats' = stats
                /\ added' = added
                /\ ret'[w] = None]_vars
    /\ [][\A w \in Workers :
            Empty(w) => (Empty(w)' /\ attempts'[w] = attempts[w])]_vars
    /\ [](stats = generated - Unpublished)

\* C15 witness: after a published batch a worker returned None at the check
\* that ends its batch, on the flag another worker stored; its 1000 attempts
\* are not in the counter
C15_Witness ==
    /\ ~interrupted
    /\ stats = batch_size
    /\ \E w \in Workers :
           /\ Empty(w)
           /\ attempts[w] = batch_size
    /\ generated > stats + batch_size

\* C16: the counter is 1000 times the number of batches completed and
\* published; it changes only by a worker that has 1000 local attempts adding
\* 1000 and resetting its local count to 0; every local count is between 0
\* and 1000; the counter never exceeds the number of candidates generated
\* and is behind it by the local counts, at most 1000 for each worker.
C16_CounterIsPublishedBatches ==
    /\ [](stats = batch_size * batches)
    /\ [](\A w \in Workers : attempts[w] >= 0 /\ attempts[w] <= batch_size)
    /\ [](stats <= generated)
    /\ [](generated - stats = Unpublished)
    /\ [](generated - stats <= batch_size * config.num_threads)
    /\ [][stats' # stats =>
            \E w \in Workers :
                /\ attempts[w] = batch_size
                /\ attempts'[w] = 0
                /\ stats' = stats + batch_size
                /\ generated' = generated]_vars

\* C16 witness: a batch is published and each of two workers has returned
\* with a local count that is not published, one of them a whole batch
C16_Witness ==
    /\ batches = 1
    /\ stats = batch_size
    /\ config.num_threads = 2
    /\ WorkersReturned
    /\ \E w \in Workers : attempts[w] = batch_size
    /\ \E w \in Workers : attempts[w] = MaxFine
    /\ generated = stats + batch_size + MaxFine

\* main is at the outcome or past it
Reporting == mainpc \in {"report", "success", "save_failed", "interrupted"}

\* C17: main, holding the result of the search, stores the flag, then waits
\* for the reporter, and reports the outcome and writes keys only when the
\* reporter has exited; once the flag is set the reporter renders at most
\* once more (the poll it was sleeping for) and exits at its next test of the
\* flag; nothing is rendered at or after the outcome step, and the join
\* ends.
C17_ShutdownOrder ==
    /\ [](Reporting => (found /\ rpc = "exited" /\ WorkersReturned))
    /\ [](mainpc = "join" => found)
    /\ [][mainpc' # mainpc =>
            /\ mainpc = "search" => mainpc' = "signal"
            /\ mainpc = "signal" => (mainpc' = "join" /\ found')
            /\ mainpc = "join" => (mainpc' = "report" /\ rpc = "exited")
            /\ mainpc' = "report" => mainpc = "join"]_vars
    /\ [][files' # files => (rpc = "exited" /\ found)]_vars
    /\ [][(found /\ rpc' # rpc) =>
            \/ rpc = "sleep" /\ rpc' = "check"
            \/ rpc = "check" /\ rpc' = "exited"]_vars
    /\ [][rpc = "exited" => rpc' = "exited"]_vars
    /\ [][rpc' # rpc => ~Reporting]_vars
    /\ (found ~> rpc = "exited")
    /\ (mainpc = "join" ~> Reporting)

\* C17 witness: main has stored the flag and waits in the join for the
\* reporter, which is in the sleep of its last poll; the search returned a
\* match
C17_Witness ==
    /\ mainpc = "join"
    /\ rpc = "sleep"
    /\ found
    /\ result # None
    /\ ~interrupted

\* C18 as claimed: every worker begins its search loop without waiting for
\* another worker to return: while the search runs and the flag is false, a
\* worker that has not begun has a pool thread free to run it, also when
\* there are more workers than pool threads.
C18_NoWorkerWaits ==
    \A w \in Workers :
        (mainpc = "search" /\ ~found /\ wpc[w] = "pending") =>
            Cardinality(Running) < cpus

\* C19: the step in which a worker matches sets the attempt count of its
\* Match to the counter as it is in that step plus the worker's local count,
\* which is between 1 and 1000; the count of every Match a worker holds and
\* of the Match the run returns is at least 1 and at most the number of
\* candidates all workers had generated when it was set.
C19_CountIsTotalPlusLocal ==
    /\ [][\A w \in Workers :
            (ret[w] = None /\ ret'[w] # None) =>
                /\ ret'[w][1].attempts = stats + attempts'[w]
                /\ stats' = stats
                /\ attempts'[w] >= 1
                /\ attempts'[w] <= batch_size
                /\ ret'[w][1].attempts >= 1
                /\ ret'[w][1].attempts <= generated']_vars
    /\ [][\A w \in Workers : ret[w] # None => ret'[w] = ret[w]]_vars
    /\ []((Collected /\ result # None) =>
             /\ \E w \in Workers : ret[w] = result
             /\ result[1].attempts >= 1
             /\ result[1].attempts <= generated)

\* C19 witness: a worker has just matched with the 7th candidate of its
\* second batch while the other worker has unpublished candidates: its count
\* is 1007, less than the number of candidates generated
C19_Witness ==
    \E w \in Workers :
        /\ wpc[w] = "store"
        /\ ret[w] # None
        /\ stats = batch_size
        /\ attempts[w] = MaxFine
        /\ ret[w][1].attempts = batch_size + MaxFine
        /\ generated > batch_size + MaxFine

====
